---- MODULE Spec2Model ----
(***************************************************************************)
(* Model of the Gomoku engine of src/unnamed/part_000 (class GomokuGame):  *)
(* the board, the side to move, the move ledger, the persisted snapshot    *)
(* in localStorage, the deferred computer reply (setTimeout) and the       *)
(* operations click, computer reply, undo, reset, mode toggle and          *)
(* construction of a new engine over the same store.                       *)
(*                                                                         *)
(* Left out: canvas drawing, hover preview, responsive sizing and the      *)
(* status text, which read the state and never write it, and the           *)
(* timestamp field of a move (Date.now()), which no operation reads.       *)
(***************************************************************************)
EXTENDS Integers, Sequences, FiniteSets, TLC

VARIABLES
    board,          \* this.board: board[row][col] in {NONE, BLACK, WHITE}
    currentPlayer,  \* this.currentPlayer
    gameOver,       \* this.gameOver
    moveHistory,    \* this.moveHistory: sequence of Move records
    moveCount,      \* this.moveCount
    gameMode,       \* this.gameMode
    winnerMessage,  \* what #winner-message shows: "hidden" or the result text
    storage,        \* localStorage['gomoku-game-state']: <<>> or <<snapshot>>
    timers,         \* number of pending setTimeout(() => this.aiMove(), 500)
    lastOp,         \* the handler that ran last, and whether it returned early
    undefinedFields, \* the fields of the engine that hold `undefined`
    beforeUndo,     \* history: the state the last undo started from, kept while
                    \* the move it took back is being made again
    probe           \* what a stand-alone run of checkWin or getAIMove returned

gameVars == <<board, currentPlayer, gameOver, moveHistory, moveCount, gameMode>>
vars == <<board, currentPlayer, gameOver, moveHistory, moveCount, gameMode,
          winnerMessage, storage, timers, lastOp, undefinedFields, beforeUndo,
          probe>>

----------------------------------------------------------------------------
(* Program constants *)

NONE == 0

BLACK == 1

WHITE == 2

PVP == "pvp"

PVE == "pve"

(* count >= 5 in checkWin *)
WIN_LENGTH == 5

----------------------------------------------------------------------------
(* Bounds of the model *)

(* The board is BOARD_SIZE x BOARD_SIZE. The program's board is 15 x 15;    *)
(* the model runs the same code on a smaller board, the smallest on which  *)
(* five in a row fits, so that a full board is within reach.               *)
BOARD_SIZE == 5

(* At most MaxTimers computer replies are pending at once. *)
MaxTimers == 2

----------------------------------------------------------------------------
(* Board model *)

Index == 0 .. (BOARD_SIZE - 1)

createEmptyBoard == [r \in Index |-> [c \in Index |-> NONE]]

InBounds(row, col) ==
    row >= 0 /\ row < BOARD_SIZE /\ col >= 0 /\ col < BOARD_SIZE

(* this.board[row][col] = player *)
PutCell(b, row, col, player) == [b EXCEPT ![row][col] = player]

Opponent(player) == IF player = BLACK THEN WHITE ELSE BLACK

(* isBoardFull with the test inverted: false at the first piece it finds. *)
isBoardFullInverted(b) == \A r \in Index : \A c \in Index : b[r][c] = NONE

isBoardFull(b) == \A r \in Index : \A c \in Index : b[r][c] # NONE

----------------------------------------------------------------------------
(* Win detector *)

directions == << <<0, 1>>, <<1, 0>>, <<1, 1>>, <<1, -1>> >>

RECURSIVE walkDirection(_, _, _, _, _, _)
walkDirection(b, currentRow, currentCol, dx, dy, player) ==
    IF /\ currentRow >= 0 /\ currentRow < BOARD_SIZE
       /\ currentCol >= 0 /\ currentCol < BOARD_SIZE
       /\ b[currentRow][currentCol] = player
    THEN 1 + walkDirection(b, currentRow + dx, currentCol + dy, dx, dy, player)
    ELSE 0

(* countDirection with the upper bounds check off by one: the walk stops  *)
(* one cell short of the last row and column.                              *)
RECURSIVE walkDirectionShortOfEdge(_, _, _, _, _, _)
walkDirectionShortOfEdge(b, currentRow, currentCol, dx, dy, player) ==
    IF /\ currentRow >= 0 /\ currentRow < BOARD_SIZE - 1
       /\ currentCol >= 0 /\ currentCol < BOARD_SIZE - 1
       /\ b[currentRow][currentCol] = player
    THEN 1 + walkDirectionShortOfEdge(b, currentRow + dx, currentCol + dy, dx, dy, player)
    ELSE 0

countDirectionShortOfEdge(b, row, col, dx, dy, player) ==
    walkDirectionShortOfEdge(b, row + dx, col + dy, dx, dy, player)

countDirection(b, row, col, dx, dy, player) ==
    walkDirection(b, row + dx, col + dy, dx, dy, player)

(* checkWin whose count starts at 0 and leaves out the piece just placed. *)
checkWinCountFromZero(b, row, col) ==
    LET player == b[row][col] IN
    \E i \in 1 .. Len(directions) :
        LET dx == directions[i][1]
            dy == directions[i][2]
        IN  0 + countDirection(b, row, col, dx, dy, player)
              + countDirection(b, row, col, -dx, -dy, player) >= WIN_LENGTH

(* checkWin asking for more than five: count > 5. *)
checkWinMoreThanFive(b, row, col) ==
    LET player == b[row][col] IN
    \E i \in 1 .. Len(directions) :
        LET dx == directions[i][1]
            dy == directions[i][2]
        IN  1 + countDirection(b, row, col, dx, dy, player)
              + countDirection(b, row, col, -dx, -dy, player) > WIN_LENGTH

checkWin(b, row, col) ==
    LET player == b[row][col] IN
    \E i \in 1 .. Len(directions) :
        LET dx == directions[i][1]
            dy == directions[i][2]
        IN  1 + countDirection(b, row, col, dx, dy, player)
              + countDirection(b, row, col, -dx, -dy, player) >= WIN_LENGTH

----------------------------------------------------------------------------
(* Heuristic move selector *)

NoMove == <<>>

(* scanWinningCol that returns the winning cell without taking the trial  *)
(* piece off the board.                                                    *)
RECURSIVE scanWinningColKeepsPiece(_, _, _, _)
scanWinningColKeepsPiece(b, player, row, col) ==
    IF col >= BOARD_SIZE THEN <<NoMove, b>>
    ELSE IF b[row][col] = NONE
         THEN LET placed == PutCell(b, row, col, player) IN
              IF checkWin(placed, row, col)
              THEN << <<row, col>>, placed >>
              ELSE scanWinningColKeepsPiece(PutCell(placed, row, col, NONE),
                                            player, row, col + 1)
         ELSE scanWinningColKeepsPiece(b, player, row, col + 1)

(* Tiers 1 and 2, the inner loop over col, from `col` on: each empty cell  *)
(* of `row` gets a trial piece of `player`, checkWin is asked, and the     *)
(* piece is taken off again. <<cell found or NoMove, this.board after>>.   *)
RECURSIVE scanWinningCol(_, _, _, _)
scanWinningCol(b, player, row, col) ==
    IF col >= BOARD_SIZE THEN <<NoMove, b>>
    ELSE IF b[row][col] = NONE
         THEN LET placed == PutCell(b, row, col, player)
                  restored == PutCell(placed, row, col, NONE)
              IN  IF checkWin(placed, row, col)
                  THEN << <<row, col>>, restored >>
                  ELSE scanWinningCol(restored, player, row, col + 1)
         ELSE scanWinningCol(b, player, row, col + 1)

(* Tiers 1 and 2, the outer loop over row. *)
RECURSIVE scanWinningCell(_, _, _)
scanWinningCell(b, player, row) ==
    IF row >= BOARD_SIZE THEN <<NoMove, b>>
    ELSE LET found == scanWinningCol(b, player, row, 0) IN
         IF found[1] # NoMove THEN found
         ELSE scanWinningCell(found[2], player, row + 1)

axisScore(b, row, col, dx, dy, player) ==
    LET opponent == Opponent(player)
        myCount == countDirection(b, row, col, dx, dy, player)
                   + countDirection(b, row, col, -dx, -dy, player)
        opponentCount == countDirection(b, row, col, dx, dy, opponent)
                         + countDirection(b, row, col, -dx, -dy, opponent)
    IN  (IF myCount >= 4 THEN 100000
         ELSE IF myCount = 3 THEN 10000
         ELSE IF myCount = 2 THEN 1000
         ELSE IF myCount = 1 THEN 100
         ELSE 0)
        +
        (IF opponentCount >= 4 THEN 50000
         ELSE IF opponentCount = 3 THEN 5000
         ELSE IF opponentCount = 2 THEN 500
         ELSE 0)

Abs(x) == IF x < 0 THEN -x ELSE x

evaluatePosition(b, row, col, player) ==
    LET centerDistance == Abs(row - 7) + Abs(col - 7) IN
      axisScore(b, row, col, directions[1][1], directions[1][2], player)
    + axisScore(b, row, col, directions[2][1], directions[2][2], player)
    + axisScore(b, row, col, directions[3][1], directions[3][2], player)
    + axisScore(b, row, col, directions[4][1], directions[4][2], player)
    + (14 - centerDistance) * 10

(* scanBestCol replacing the best move on an equal score: score >= best. *)
RECURSIVE scanBestColKeepsLast(_, _, _, _)
scanBestColKeepsLast(b, row, col, best) ==
    IF col >= BOARD_SIZE THEN best
    ELSE IF b[row][col] = NONE
         THEN LET score == evaluatePosition(b, row, col, WHITE) IN
              IF score >= best[1]
              THEN scanBestColKeepsLast(b, row, col + 1, <<score, <<row, col>> >>)
              ELSE scanBestColKeepsLast(b, row, col + 1, best)
         ELSE scanBestColKeepsLast(b, row, col + 1, best)

(* Tier 3, the inner loop over col; best is <<bestScore, bestMove>>. *)
RECURSIVE scanBestCol(_, _, _, _)
scanBestCol(b, row, col, best) ==
    IF col >= BOARD_SIZE THEN best
    ELSE IF b[row][col] = NONE
         THEN LET score == evaluatePosition(b, row, col, WHITE) IN
              IF score > best[1]
              THEN scanBestCol(b, row, col + 1, <<score, <<row, col>> >>)
              ELSE scanBestCol(b, row, col + 1, best)
         ELSE scanBestCol(b, row, col + 1, best)

(* Tier 3, the outer loop over row: best after rows 0 .. row. *)
RECURSIVE scanBestCell(_, _)
scanBestCell(b, row) ==
    IF row < 0 THEN <<-1, NoMove>>
    ELSE scanBestCol(b, row, 0, scanBestCell(b, row - 1))

(* getAIMove with tiers 1 and 2 in the other order: it blocks before it    *)
(* wins.                                                                   *)
getAIMoveBlocksFirst(b) ==
    LET blocking == scanWinningCell(b, BLACK, 0) IN
    IF blocking[1] # NoMove THEN blocking
    ELSE LET winning == scanWinningCell(blocking[2], WHITE, 0) IN
         IF winning[1] # NoMove THEN winning
         ELSE <<scanBestCell(winning[2], BOARD_SIZE - 1)[2], winning[2]>>

(* getAIMove() on this.board = b: <<the move or NoMove, this.board after>>. *)
getAIMove(b) ==
    LET winning == scanWinningCell(b, WHITE, 0) IN
    IF winning[1] # NoMove THEN winning
    ELSE LET blocking == scanWinningCell(winning[2], BLACK, 0) IN
         IF blocking[1] # NoMove THEN blocking
         ELSE <<scanBestCell(blocking[2], BOARD_SIZE - 1)[2], blocking[2]>>

----------------------------------------------------------------------------
(* Persistence *)

NoSave == <<>>

(* JSON.stringify of the GameState object: a copy of the five fields. *)
Snapshot(b, player, over, history, mode) ==
    [board |-> b, currentPlayer |-> player, gameOver |-> over,
     moveHistory |-> history, gameMode |-> mode]

(* The store after saveGame() with the engine's fields as given. *)
saveGame(b, player, over, history, mode, store) ==
    IF over THEN store
    ELSE <<Snapshot(b, player, over, history, mode)>>

(* The fields the constructor assigns before it calls loadGame(), none of  *)
(* them undefined, over an empty store.                                    *)
freshFields ==
    [board |-> createEmptyBoard, currentPlayer |-> BLACK, gameOver |-> FALSE,
     moveHistory |-> <<>>, moveCount |-> 0, gameMode |-> PVP,
     undefined |-> {}, storage |-> NoSave]

(* A stored item is the text of an object, modelled as the record of the   *)
(* fields it has, or text JSON.parse rejects: [unparseable |-> TRUE].      *)
Unparseable == [unparseable |-> TRUE]

(* loadGame() on a freshly constructed engine: the engine's fields, the    *)
(* names of those left holding `undefined` (their entry keeps the          *)
(* constructor's value), and the store afterwards. The assignments run in  *)
(* the order board, currentPlayer, gameOver, moveHistory, moveCount,       *)
(* gameMode; JSON.parse throws on unparseable text and                     *)
(* gameState.moveHistory.length throws when the item has no moveHistory;   *)
(* the catch block removes the item and keeps what was assigned.           *)
loadGame(store) ==
    IF store = NoSave THEN freshFields
    ELSE LET gameState == store[1] IN
         IF "unparseable" \in DOMAIN gameState
         THEN freshFields
         ELSE LET has(field) == field \in DOMAIN gameState
                  thrown == ~has("moveHistory")
                  assigned == {"board", "currentPlayer", "gameOver", "moveHistory"}
                              \cup (IF thrown THEN {} ELSE {"gameMode"})
              IN  [board |-> IF has("board") THEN gameState.board
                             ELSE freshFields.board,
                   currentPlayer |-> IF has("currentPlayer")
                                     THEN gameState.currentPlayer
                                     ELSE freshFields.currentPlayer,
                   gameOver |-> IF has("gameOver") THEN gameState.gameOver
                                ELSE freshFields.gameOver,
                   moveHistory |-> IF thrown THEN freshFields.moveHistory
                                   ELSE gameState.moveHistory,
                   moveCount |-> IF thrown THEN freshFields.moveCount
                                 ELSE Len(gameState.moveHistory),
                   gameMode |-> IF ~thrown /\ has("gameMode") THEN gameState.gameMode
                                ELSE freshFields.gameMode,
                   undefined |-> {field \in assigned : ~has(field)},
                   storage |-> IF thrown THEN NoSave ELSE store]

----------------------------------------------------------------------------
(* Inputs *)

(* A two-human game saved by an earlier session, as the cells clicked in   *)
(* order from the empty board (BLACK first, sides alternating):            *)
(*        W B W W B                                                        *)
(*        . W W B W                                                        *)
(*        W B B W B                                                        *)
(*        B W B W W                                                        *)
(*        B B . B B                                                        *)
(* No five in a row exists; BLACK completes the bottom row at (4,2).       *)
SavedClicks ==
    << <<0, 4>>, <<0, 0>>, <<1, 3>>, <<0, 2>>, <<2, 1>>, <<0, 3>>, <<2, 2>>, <<1, 1>>,
       <<2, 4>>, <<1, 2>>, <<3, 0>>, <<1, 4>>, <<3, 2>>, <<2, 0>>, <<4, 0>>, <<2, 3>>,
       <<4, 1>>, <<3, 1>>, <<4, 3>>, <<3, 3>>, <<4, 4>>, <<3, 4>>, <<0, 1>> >>

(* The ledger placePiece builds from those clicks. *)
SavedHistory ==
    [i \in 1 .. Len(SavedClicks) |->
        [row |-> SavedClicks[i][1], col |-> SavedClicks[i][2],
         player |-> IF i % 2 = 1 THEN BLACK ELSE WHITE, moveNumber |-> i]]

(* The board placePiece builds from those clicks. *)
SavedBoard ==
    [r \in Index |-> [c \in Index |->
        IF \E i \in 1 .. Len(SavedClicks) : SavedClicks[i] = <<r, c>>
        THEN SavedHistory[CHOOSE i \in 1 .. Len(SavedClicks) : SavedClicks[i] = <<r, c>>].player
        ELSE NONE]]

(* The snapshot undo() wrote after that session took back its last move:   *)
(* WHITE is to move.                                                       *)
SavedGame == Snapshot(SavedBoard, WHITE, FALSE, SavedHistory, PVP)

(* A human-vs-computer game saved by an earlier session: the cells the     *)
(* human clicked, each answered by the computer's reply.                   *)
SavedPveClicks == << <<0, 0>>, <<0, 3>>, <<1, 1>>, <<0, 1>> >>

(* <<board, ledger>> after the human's clicks, each followed by aiMove.    *)
RECURSIVE replayRounds(_, _, _)
replayRounds(b, history, clicks) ==
    IF clicks = <<>> THEN <<b, history>>
    ELSE LET click == Head(clicks)
             afterClick == PutCell(b, click[1], click[2], BLACK)
             selected == getAIMove(afterClick)
             reply == selected[1]
             afterReply == PutCell(selected[2], reply[1], reply[2], WHITE)
             moves == << [row |-> click[1], col |-> click[2], player |-> BLACK,
                          moveNumber |-> Len(history) + 1],
                         [row |-> reply[1], col |-> reply[2], player |-> WHITE,
                          moveNumber |-> Len(history) + 2] >>
         IN  replayRounds(afterReply, history \o moves, Tail(clicks))

(* The snapshot undo() wrote after that session took back its fifth round: *)
(* BLACK, the human, is to move, and the computer has four in a line.      *)
SavedPveGame ==
    LET played == replayRounds(createEmptyBoard, <<>>, SavedPveClicks) IN
    Snapshot(played[1], BLACK, FALSE, played[2], PVE)

(* Where the human clicks: the two cells the saved games leave empty in    *)
(* the top-left 5 x 5 corner, and two positions off the board.             *)
ClickPositions ==
    {<<1, 0>>, <<4, 2>>} \cup {<<-1, 2>>, <<2, BOARD_SIZE>>}

(* What the store holds when the first engine is constructed. *)
InitialStores == {NoSave, <<SavedGame>>, <<SavedPveGame>>}

----------------------------------------------------------------------------
(* Game state machine *)

NoUndo == <<>>

(* The history variable beforeUndo, set by every handler once it has set   *)
(* lastOp: undo records the state it started from; the record is kept over *)
(* the click that follows the undo at once on the cell of the first move   *)
(* taken back, and in human-vs-computer mode over the computer's reply to  *)
(* that click; anything else drops it.                                     *)
NoteUndo ==
    beforeUndo' =
        IF lastOp' = "undo"
        THEN << [board |-> board, currentPlayer |-> currentPlayer,
                 moveHistory |-> moveHistory] >>
        ELSE IF /\ lastOp' = "handleClick" /\ lastOp = "undo"
                /\ Len(moveHistory') <= Len(beforeUndo[1].moveHistory)
                /\ LET i == Len(moveHistory') IN
                   /\ moveHistory'[i].row = beforeUndo[1].moveHistory[i].row
                   /\ moveHistory'[i].col = beforeUndo[1].moveHistory[i].col
             THEN beforeUndo
        ELSE IF lastOp' = "aiMove" /\ lastOp = "handleClick" /\ gameMode = PVE
             THEN beforeUndo
        ELSE NoUndo

(* endGame(winner): the text shown in #winner-message. *)
winnerText(winner, mode) ==
    IF winner = NONE THEN "draw"
    ELSE IF winner = BLACK THEN "black wins"
    ELSE IF mode = PVE THEN "white (AI) wins"
    ELSE "white wins"

(* endGame without the last line, localStorage.removeItem. *)
endGameKeepsStore(winner) ==
    /\ gameOver' = TRUE
    /\ winnerMessage' = winnerText(winner, gameMode)
    /\ storage' = storage

endGame(winner) ==
    /\ gameOver' = TRUE
    /\ winnerMessage' = winnerText(winner, gameMode)
    /\ storage' = NoSave

(* placePiece(row, col), called with this.board = b and `pending` computer *)
(* replies still queued.                                                   *)
placePiece(b, row, col, pending) ==
    LET placed == PutCell(b, row, col, currentPlayer)
        move == [row |-> row, col |-> col, player |-> currentPlayer,
                 moveNumber |-> moveCount + 1]
        history == Append(moveHistory, move)
        saved == saveGame(placed, currentPlayer, gameOver, history, gameMode, storage)
    IN  /\ board' = placed
        /\ moveCount' = moveCount + 1
        /\ moveHistory' = history
        /\ gameMode' = gameMode
        /\ IF checkWin(placed, row, col)
           THEN /\ endGame(currentPlayer)
                /\ currentPlayer' = currentPlayer
                /\ timers' = pending
           ELSE IF isBoardFull(placed)
           THEN /\ endGame(NONE)
                /\ currentPlayer' = currentPlayer
                /\ timers' = pending
           ELSE /\ currentPlayer' = Opponent(currentPlayer)
                /\ gameOver' = gameOver
                /\ winnerMessage' = winnerMessage
                /\ storage' = saved
                /\ timers' = IF gameMode = PVE /\ currentPlayer' = WHITE
                             THEN pending + 1
                             ELSE pending

(* clickIgnored without the test that the cell is empty. *)
clickIgnoredNoOccupiedCheck(row, col) ==
    \/ gameOver
    \/ gameMode = PVE /\ currentPlayer = WHITE
    \/ row < 0 \/ row >= BOARD_SIZE \/ col < 0 \/ col >= BOARD_SIZE

(* clickIgnored without the first line of handleClick (gameOver). *)
clickIgnoredNoGameOverCheck(row, col) ==
    \/ gameMode = PVE /\ currentPlayer = WHITE
    \/ row < 0 \/ row >= BOARD_SIZE \/ col < 0 \/ col >= BOARD_SIZE
    \/ board[row][col] # NONE

(* clickIgnored without the check that it is the computer's turn. *)
clickIgnoredNoTurnCheck(row, col) ==
    \/ gameOver
    \/ row < 0 \/ row >= BOARD_SIZE \/ col < 0 \/ col >= BOARD_SIZE
    \/ board[row][col] # NONE

(* The conditions under which handleClick returns without placing. *)
clickIgnored(row, col) ==
    \/ gameOver
    \/ gameMode = PVE /\ currentPlayer = WHITE
    \/ row < 0 \/ row >= BOARD_SIZE \/ col < 0 \/ col >= BOARD_SIZE
    \/ board[row][col] # NONE

handleClick(row, col) ==
    /\ probe' = probe
    /\ undefinedFields' = undefinedFields
    /\ IF clickIgnored(row, col)
       THEN /\ lastOp' = "handleClick return"
            /\ UNCHANGED <<board, currentPlayer, gameOver, moveHistory, moveCount,
                           gameMode, winnerMessage, storage, timers>>
       ELSE /\ lastOp' = "handleClick"
            /\ placePiece(board, row, col, timers)
            /\ timers' <= MaxTimers
    /\ NoteUndo

(* The first line of aiMove: it returns when the game is over. *)
aiMoveIgnored == gameOver

(* A pending timeout fires: aiMove(). *)
aiMove ==
    /\ timers > 0
    /\ probe' = probe
    /\ undefinedFields' = undefinedFields
    /\ LET selected == IF aiMoveIgnored THEN <<NoMove, board>> ELSE getAIMove(board)
           move == selected[1]
       IN
       IF move = NoMove
       THEN /\ lastOp' = "aiMove return"
            /\ timers' = timers - 1
            /\ board' = selected[2]
            /\ UNCHANGED <<currentPlayer, gameOver, moveHistory, moveCount,
                           gameMode, winnerMessage, storage>>
       ELSE /\ lastOp' = "aiMove"
            /\ placePiece(selected[2], move[1], move[2], timers - 1)
    /\ NoteUndo

(* popMoves that pops the ledger and leaves the piece on the board. *)
RECURSIVE popMovesKeepsPiece(_, _, _)
popMovesKeepsPiece(b, history, steps) ==
    IF steps = 0 \/ Len(history) = 0 THEN <<b, history>>
    ELSE popMovesKeepsPiece(b, SubSeq(history, 1, Len(history) - 1), steps - 1)

(* The loop of undo: <<board, moveHistory>> after at most `steps` pops. *)
RECURSIVE popMoves(_, _, _)
popMoves(b, history, steps) ==
    IF steps = 0 \/ Len(history) = 0 THEN <<b, history>>
    ELSE LET lastMove == history[Len(history)] IN
         popMoves(PutCell(b, lastMove.row, lastMove.col, NONE),
                  SubSeq(history, 1, Len(history) - 1), steps - 1)

(* stepsToUndo that pops two moves in either mode. *)
stepsToUndoAlwaysTwo(mode, length) == IF length >= 2 THEN 2 ELSE 1

(* const stepsToUndo: how many moves undo pops. *)
stepsToUndo(mode, length) == IF mode = PVE /\ length >= 2 THEN 2 ELSE 1

(* undoIgnored without the gameOver test. *)
undoIgnoredOnlyWhenEmpty == Len(moveHistory) = 0

(* The first line of undo: it returns when the game is over or the ledger *)
(* is empty.                                                               *)
undoIgnored == gameOver \/ Len(moveHistory) = 0

undo ==
    /\ probe' = probe
    /\ undefinedFields' = undefinedFields
    /\ IF undoIgnored
       THEN /\ lastOp' = "undo return"
            /\ UNCHANGED <<board, currentPlayer, gameOver, moveHistory, moveCount,
                           gameMode, winnerMessage, storage, timers>>
       ELSE LET popped == popMoves(board, moveHistory,
                                    stepsToUndo(gameMode, Len(moveHistory)))
                history == popped[2]
                player == IF Len(history) > 0
                          THEN Opponent(history[Len(history)].player)
                          ELSE BLACK
            IN  /\ lastOp' = "undo"
                /\ board' = popped[1]
                /\ moveHistory' = history
                /\ moveCount' = moveCount - (Len(moveHistory) - Len(history))
                /\ currentPlayer' = player
                /\ storage' = saveGame(popped[1], player, gameOver, history,
                                       gameMode, storage)
                /\ UNCHANGED <<gameOver, gameMode, winnerMessage, timers>>
    /\ NoteUndo

(* reset() without localStorage.removeItem. *)
resetFieldsKeepsStore ==
    /\ board' = createEmptyBoard
    /\ currentPlayer' = BLACK
    /\ gameOver' = FALSE
    /\ moveHistory' = <<>>
    /\ moveCount' = 0
    /\ winnerMessage' = "hidden"
    /\ storage' = storage
    /\ timers' = timers

(* The body of reset(), shared by the reset button and toggleMode. *)
resetFields ==
    /\ board' = createEmptyBoard
    /\ currentPlayer' = BLACK
    /\ gameOver' = FALSE
    /\ moveHistory' = <<>>
    /\ moveCount' = 0
    /\ winnerMessage' = "hidden"
    /\ storage' = NoSave
    /\ timers' = timers

reset ==
    /\ lastOp' = "reset"
    /\ probe' = probe
    /\ undefinedFields' = undefinedFields \cap {"gameMode"}
    /\ gameMode' = gameMode
    /\ resetFields
    /\ NoteUndo

toggleMode ==
    /\ lastOp' = "toggleMode"
    /\ probe' = probe
    /\ undefinedFields' = {}
    /\ gameMode' = IF "gameMode" \notin undefinedFields /\ gameMode = PVP
                   THEN PVE ELSE PVP
    /\ resetFields
    /\ NoteUndo

(* The page is loaded again: the engine and its pending timeouts are       *)
(* discarded and new GomokuGame() runs over the same store.                *)
constructor ==
    LET loaded == loadGame(storage) IN
    /\ lastOp' = "constructor"
    /\ probe' = probe
    /\ undefinedFields' = loaded.undefined
    /\ board' = loaded.board
    /\ currentPlayer' = loaded.currentPlayer
    /\ gameOver' = loaded.gameOver
    /\ moveHistory' = loaded.moveHistory
    /\ moveCount' = loaded.moveCount
    /\ gameMode' = loaded.gameMode
    /\ winnerMessage' = "hidden"
    /\ storage' = loaded.storage
    /\ timers' = 0
    /\ NoteUndo

NoProbe == [row |-> -1, col |-> -1, won |-> FALSE]

Init ==
    /\ storage \in InitialStores
    /\ board = loadGame(storage).board
    /\ currentPlayer = loadGame(storage).currentPlayer
    /\ gameOver = loadGame(storage).gameOver
    /\ moveHistory = loadGame(storage).moveHistory
    /\ moveCount = loadGame(storage).moveCount
    /\ gameMode = loadGame(storage).gameMode
    /\ winnerMessage = "hidden"
    /\ timers = 0
    /\ lastOp = "constructor"
    /\ probe = NoProbe
    /\ undefinedFields = loadGame(storage).undefined
    /\ beforeUndo = NoUndo

Next ==
    \/ \E p \in ClickPositions : handleClick(p[1], p[2])
    \/ aiMove
    \/ undo
    \/ reset
    \/ toggleMode
    \/ constructor

Spec == Init /\ [][Next]_vars

----------------------------------------------------------------------------
(* The win detector on its own: checkWin applied to drawn boards.          *)

(* The lines of the board: rows, columns, and the diagonals of both        *)
(* directions that hold at least WIN_LENGTH - 1 cells, each as a sequence  *)
(* of cells.                                                               *)
LineFrom(row, col, dx, dy, length) ==
    [i \in 1 .. length |-> <<row + (i - 1) * dx, col + (i - 1) * dy>>]

ProbeLines ==
    {LineFrom(r, 0, 0, 1, BOARD_SIZE) : r \in Index}
    \cup {LineFrom(0, c, 1, 0, BOARD_SIZE) : c \in Index}
    \cup {LineFrom(0, c, 1, 1, BOARD_SIZE - c) : c \in 0 .. (BOARD_SIZE - WIN_LENGTH + 1)}
    \cup {LineFrom(r, 0, 1, 1, BOARD_SIZE - r) : r \in 1 .. (BOARD_SIZE - WIN_LENGTH + 1)}
    \cup {LineFrom(0, c, 1, -1, c + 1) : c \in (WIN_LENGTH - 2) .. (BOARD_SIZE - 1)}
    \cup {LineFrom(r, BOARD_SIZE - 1, 1, -1, BOARD_SIZE - r) :
              r \in 1 .. (BOARD_SIZE - WIN_LENGTH + 1)}

(* The board whose only pieces are those of `colouring` along `line`. *)
LineBoard(line, colouring) ==
    [r \in Index |-> [c \in Index |->
        IF \E i \in 1 .. Len(line) : line[i] = <<r, c>>
        THEN colouring[CHOOSE i \in 1 .. Len(line) : line[i] = <<r, c>>]
        ELSE NONE]]

(* The board with BLACK on the chosen cells of row 2 and column 2, which   *)
(* cross at (2, 2).                                                        *)
CrossBoard(rowCells, colCells) ==
    [r \in Index |-> [c \in Index |->
        IF (r = 2 /\ c \in rowCells) \/ (c = 2 /\ r \in colCells) THEN BLACK ELSE NONE]]

ProbeBoards ==
    {LineBoard(line, colouring) :
        <<line, colouring>> \in
            UNION {{<<l, f>> : f \in [1 .. Len(l) -> {NONE, BLACK, WHITE}]} : l \in ProbeLines}}
    \cup {CrossBoard(rs, cs) : rs \in SUBSET Index, cs \in SUBSET Index}

InitWin ==
    /\ board \in ProbeBoards
    /\ currentPlayer = BLACK
    /\ gameOver = FALSE
    /\ moveHistory = <<>>
    /\ moveCount = 0
    /\ gameMode = PVP
    /\ winnerMessage = "hidden"
    /\ storage = NoSave
    /\ timers = 0
    /\ lastOp = "constructor"
    /\ probe = NoProbe
    /\ undefinedFields = {}
    /\ beforeUndo = NoUndo

(* checkWin(row, col) is called on a cell that holds a piece. *)
probeCheckWin(row, col) ==
    /\ board[row][col] # NONE
    /\ probe' = [row |-> row, col |-> col, won |-> checkWin(board, row, col)]
    /\ UNCHANGED <<board, currentPlayer, gameOver, moveHistory, moveCount, gameMode,
                   winnerMessage, storage, timers, lastOp, undefinedFields,
                   beforeUndo>>

NextWin == \E r \in Index : \E c \in Index : probeCheckWin(r, c)

SpecWin == InitWin /\ [][NextWin]_vars

----------------------------------------------------------------------------
(* The move selector on its own: getAIMove applied to drawn boards.        *)

(* What a row of a drawn board holds: nothing; four WHITE with the cell    *)
(* after them empty; four BLACK with the cell before them empty; the two   *)
(* sides in turn with one empty cell.                                      *)
RowPatterns ==
    { [c \in Index |-> NONE],
      [c \in Index |-> IF c < WIN_LENGTH - 1 THEN WHITE ELSE NONE],
      [c \in Index |-> IF c >= 1 /\ c < WIN_LENGTH THEN BLACK ELSE NONE],
      [c \in Index |-> IF c = 2 THEN NONE ELSE IF c % 2 = 0 THEN BLACK ELSE WHITE] }

(* The boards with one side along a line but for one empty cell. *)
OneHoleBoards ==
    UNION {{LineBoard(l, [i \in 1 .. Len(l) |-> IF i = h THEN NONE ELSE p]) :
               <<h, p>> \in (1 .. Len(l)) \X {BLACK, WHITE}} : l \in ProbeLines}

(* Boards with no empty cell. *)
FullBoards ==
    { [r \in Index |-> [c \in Index |-> IF (r + c) % 2 = 0 THEN first ELSE Opponent(first)]] :
        first \in {BLACK, WHITE} }

(* The full-length lines through the cell (2, 2). *)
ScoreLines ==
    {l \in ProbeLines : Len(l) = BOARD_SIZE /\ \E i \in 1 .. Len(l) : l[i] = <<2, 2>>}

(* The boards whose pieces, of either side in any arrangement, lie along   *)
(* one line through (2, 2).                                                *)
ScoreBoards ==
    UNION {{LineBoard(l, f) : f \in [1 .. Len(l) -> {NONE, BLACK, WHITE}]} : l \in ScoreLines}

AIBoards == [Index -> RowPatterns] \cup OneHoleBoards \cup FullBoards \cup ScoreBoards

InitAI ==
    /\ board \in AIBoards
    /\ currentPlayer = WHITE
    /\ gameOver = FALSE
    /\ moveHistory = <<>>
    /\ moveCount = 0
    /\ gameMode = PVE
    /\ winnerMessage = "hidden"
    /\ storage = NoSave
    /\ timers = 0
    /\ lastOp = "constructor"
    /\ probe = NoProbe
    /\ undefinedFields = {}
    /\ beforeUndo = NoUndo

(* getAIMove() is called: probe keeps the board it was called on and the   *)
(* move it returned, board is this.board as the call left it.              *)
probeGetAIMove ==
    /\ probe = NoProbe
    /\ LET selected == getAIMove(board) IN
       /\ probe' = [before |-> board, move |-> selected[1]]
       /\ board' = selected[2]
    /\ UNCHANGED <<currentPlayer, gameOver, moveHistory, moveCount, gameMode,
                   winnerMessage, storage, timers, lastOp, undefinedFields,
                   beforeUndo>>

NextAI == probeGetAIMove

SpecAI == InitAI /\ [][NextAI]_vars

----------------------------------------------------------------------------
(* Loading on its own: the constructor run over stores that hold items the *)
(* engine did not write.                                                   *)

SnapshotFields == {"board", "currentPlayer", "gameOver", "moveHistory", "gameMode"}

(* The snapshot placePiece writes for the first move of a two-human game. *)
FirstMoveGame ==
    Snapshot(PutCell(createEmptyBoard, 1, 0, BLACK), BLACK, FALSE,
             << [row |-> 1, col |-> 0, player |-> BLACK, moveNumber |-> 1] >>, PVP)

(* The object with only the fields `kept` of a snapshot. *)
KeepFields(snapshot, kept) == [field \in kept |-> snapshot[field]]

(* Stored items: the snapshots of three games with any of their fields     *)
(* missing (or none), text that does not parse, and no item at all.        *)
LoadStores ==
    {NoSave, <<Unparseable>>}
    \cup {<<KeepFields(snapshot, kept)>> :
            snapshot \in {SavedGame, SavedPveGame, FirstMoveGame},
            kept \in SUBSET SnapshotFields}

(* The page is about to be loaded over a store some earlier page left. *)
InitLoad ==
    /\ storage \in LoadStores
    /\ board = freshFields.board
    /\ currentPlayer = freshFields.currentPlayer
    /\ gameOver = freshFields.gameOver
    /\ moveHistory = freshFields.moveHistory
    /\ moveCount = freshFields.moveCount
    /\ gameMode = freshFields.gameMode
    /\ winnerMessage = "hidden"
    /\ timers = 0
    /\ lastOp = "page closed"
    /\ probe = NoProbe
    /\ undefinedFields = {}
    /\ beforeUndo = NoUndo

NextLoad == constructor

SpecLoad == InitLoad /\ [][NextLoad]_vars

----------------------------------------------------------------------------
(* Vocabulary of the properties *)

Axes == {<<0, 1>>, <<1, 0>>, <<1, 1>>, <<1, -1>>}

(* Some five consecutive cells of one axis that include (row, col) lie on  *)
(* the board and all hold the piece of (row, col).                         *)
FiveThrough(b, row, col) ==
    /\ b[row][col] # NONE
    /\ \E axis \in Axes : \E k \in 0 .. (WIN_LENGTH - 1) :
          \A j \in 0 .. (WIN_LENGTH - 1) :
              LET r == row + (j - k) * axis[1]
                  c == col + (j - k) * axis[2]
              IN  InBounds(r, c) /\ b[r][c] = b[row][col]

PlacedCount(b) == Cardinality({cell \in Index \X Index : b[cell[1]][cell[2]] # NONE})

LastMove(history) == history[Len(history)]

(* The step appended one move to the ledger: a click or a computer reply   *)
(* that placed a piece.                                                    *)
MoveMade ==
    /\ lastOp' \in {"handleClick", "aiMove"}
    /\ Len(moveHistory') = Len(moveHistory) + 1

WinTexts(player) ==
    IF player = BLACK THEN {"black wins"} ELSE {"white wins", "white (AI) wins"}

(* A click the claim says must be rejected. *)
ClickMustBeRejected(row, col) ==
    \/ ~InBounds(row, col)
    \/ board[row][col] # NONE
    \/ gameOver
    \/ gameMode = PVE /\ currentPlayer = WHITE

----------------------------------------------------------------------------
(* Properties *)

(* C1: in every reachable state the length of the move ledger equals the   *)
(* number of non-empty cells of the board.                                 *)
C1_LedgerMatchesBoard == Len(moveHistory) = PlacedCount(board)

C1_Witness ==
    /\ lastOp = "undo"
    /\ gameMode = PVE
    /\ Len(moveHistory) > 0

(* C2: BLACK moves first and no two consecutive ledger entries have the    *)
(* same side, in any run that mixes clicks, computer replies, undo, reset, *)
(* mode toggle and reload.                                                 *)
C2_SidesAlternate ==
    /\ Len(moveHistory) > 0 => moveHistory[1].player = BLACK
    /\ \A i \in 1 .. (Len(moveHistory) - 1) :
          moveHistory[i].player # moveHistory[i + 1].player

(* C3: after a successful move or a state-changing undo that leaves the    *)
(* game in progress, a new engine that loads the persisted snapshot has    *)
(* the same board, ledger, side to move and mode.                          *)
C3_ReloadReproducesState ==
    (~gameOver /\ lastOp \in {"handleClick", "aiMove", "undo"}) =>
        LET loaded == loadGame(storage) IN
        /\ loaded.board = board
        /\ loaded.moveHistory = moveHistory
        /\ loaded.currentPlayer = currentPlayer
        /\ loaded.gameMode = gameMode

(* C4: each firing of the computer reply places a piece only in            *)
(* human-vs-computer mode with WHITE to move, and the piece is WHITE.      *)
C4_ComputerPlaysOnlyWhiteInPve ==
    [][lastOp' = "aiMove" =>
          /\ gameMode = PVE
          /\ currentPlayer = WHITE
          /\ LastMove(moveHistory').player = WHITE]_vars

(* C5: checkWin(row, col) on a non-empty cell is true iff along one of the *)
(* four axes five or more consecutive cells through (row, col) hold that   *)
(* cell's side, runs cut by the board edge included.                       *)
C5_CheckWinIffFive ==
    probe # NoProbe => (probe.won <=> FiveThrough(board, probe.row, probe.col))

C5_Witness ==
    /\ probe # NoProbe
    /\ probe.won
    /\ probe.col = BOARD_SIZE - 1

(* C6: a successful move by side S that makes five through the played     *)
(* cell ends the game in that step with winner S, leaves the side to move  *)
(* unflipped and schedules no computer reply.                              *)
C6_WinEndsGameAtOnce ==
    [][(MoveMade /\ FiveThrough(board', LastMove(moveHistory').row,
                                LastMove(moveHistory').col)) =>
          /\ gameOver'
          /\ LastMove(moveHistory').player = currentPlayer
          /\ winnerMessage' \in WinTexts(currentPlayer)
          /\ currentPlayer' = currentPlayer
          /\ timers' = IF lastOp' = "aiMove" THEN timers - 1 ELSE timers]_vars

C6_Witness ==
    /\ gameOver
    /\ lastOp = "handleClick"
    /\ winnerMessage = "black wins"
    /\ PlacedCount(board) < BOARD_SIZE * BOARD_SIZE

(* C7: a successful move that fills the last empty cell ends the game: as  *)
(* a draw when it completes no five, as a win for the mover when it does.  *)
C7_FullBoardEndsGame ==
    [][(MoveMade /\ PlacedCount(board') = BOARD_SIZE * BOARD_SIZE) =>
          /\ gameOver'
          /\ IF FiveThrough(board', LastMove(moveHistory').row,
                            LastMove(moveHistory').col)
             THEN winnerMessage' \in WinTexts(LastMove(moveHistory').player)
             ELSE winnerMessage' = "draw"]_vars

C7_Witness ==
    /\ gameOver
    /\ winnerMessage = "draw"
    /\ PlacedCount(board) = BOARD_SIZE * BOARD_SIZE

(* C8: once the game is over, no click, computer reply or undo changes the *)
(* board, the ledger, the side to move or the terminal flag; only reset,   *)
(* mode toggle or a reload does.                                           *)
C8_TerminalIsAbsorbing ==
    [][(gameOver /\ lastOp' \notin {"reset", "toggleMode", "constructor"}) =>
          UNCHANGED <<board, moveHistory, currentPlayer, gameOver>>]_vars

C8_Witness ==
    /\ gameOver
    /\ lastOp = "aiMove return"
    /\ PlacedCount(board) < BOARD_SIZE * BOARD_SIZE

(* C9: undo called right after a move has ended the game removes the last  *)
(* move(s) from board and ledger and puts the game back in progress.       *)
C9_UndoReversesGameEndingMove ==
    [][(gameOver /\ lastOp \in {"handleClick", "aiMove"}
                 /\ lastOp' \in {"undo", "undo return"}) =>
          /\ ~gameOver'
          /\ Len(moveHistory') < Len(moveHistory)
          /\ PlacedCount(board') < PlacedCount(board)]_vars

(* C9, amended: undo called right after a move has ended the game changes  *)
(* nothing: board, ledger, side to move, result shown and store stay as    *)
(* they are and the game stays over.                                       *)
C9_UndoAfterGameEndChangesNothing ==
    [][(gameOver /\ lastOp \in {"handleClick", "aiMove"}
                 /\ lastOp' \in {"undo", "undo return"}) =>
          /\ gameOver'
          /\ UNCHANGED <<board, moveHistory, moveCount, currentPlayer, gameMode,
                         winnerMessage, storage>>]_vars

C9_Witness ==
    /\ gameOver
    /\ lastOp = "undo return"
    /\ Len(moveHistory) > 0

(* C10: a click that is off the board, on an occupied cell, made while the *)
(* game is over, or made in human-vs-computer mode on WHITE's turn leaves  *)
(* board, ledger, sequence counter, side to move, terminal flag, mode and  *)
(* the persisted snapshot unchanged.                                       *)
C10_RejectedClickChangesNothing ==
    [][\A p \in ClickPositions :
          (ClickMustBeRejected(p[1], p[2]) /\ handleClick(p[1], p[2])) =>
              UNCHANGED <<board, moveHistory, moveCount, currentPlayer, gameOver,
                          gameMode, storage>>]_vars

C10_Witness ==
    /\ lastOp = "handleClick return"
    /\ gameMode = PVE
    /\ currentPlayer = WHITE
    /\ ~gameOver
    /\ timers > 0

(* The board with the cells of the last k ledger entries emptied. *)
WithoutLast(b, history, k) ==
    [r \in Index |-> [c \in Index |->
        IF \E i \in (Len(history) - k + 1) .. Len(history) :
               history[i].row = r /\ history[i].col = c
        THEN NONE ELSE b[r][c]]]

(* C11: in human-vs-computer mode every undo that removes a move leaves    *)
(* BLACK, the human, to move; and after a human move and the computer's    *)
(* reply, one undo removes both and restores the state before the human's  *)
(* move.                                                                   *)
C11_UndoReturnsControlToHuman ==
    [][(gameMode = PVE /\ lastOp' = "undo") =>
          /\ currentPlayer' = BLACK
          /\ (/\ Len(moveHistory) >= 2
              /\ moveHistory[Len(moveHistory) - 1].player = BLACK
              /\ LastMove(moveHistory).player = WHITE) =>
                 /\ moveHistory' = SubSeq(moveHistory, 1, Len(moveHistory) - 2)
                 /\ board' = WithoutLast(board, moveHistory, 2)]_vars

(* C14: reset and mode toggle lead from any state to the initial state:    *)
(* empty board, empty ledger, counter 0, BLACK to move, game in progress,  *)
(* nothing persisted; reset keeps the mode and mode toggle flips it.       *)
C14_ResetAndToggleReturnToInitial ==
    [][lastOp' \in {"reset", "toggleMode"} =>
          /\ board' = createEmptyBoard
          /\ moveHistory' = <<>>
          /\ moveCount' = 0
          /\ currentPlayer' = BLACK
          /\ ~gameOver'
          /\ storage' = NoSave
          /\ gameMode' = IF lastOp' = "reset" THEN gameMode
                          ELSE IF gameMode = PVP THEN PVE ELSE PVP]_vars

(* Mode toggle has just reset a human-vs-computer game whose computer      *)
(* reply was still pending.                                                *)
C14_Witness ==
    /\ lastOp = "toggleMode"
    /\ gameMode = PVP
    /\ timers > 0

(* C15: whenever the game is over the store holds no snapshot, and a       *)
(* reload after a finished game starts a fresh game in progress on an      *)
(* empty board.                                                            *)
C15_NoSnapshotOfFinishedGame ==
    [][/\ gameOver' => storage' = NoSave
       /\ (gameOver /\ lastOp' = "constructor") =>
             /\ board' = createEmptyBoard
             /\ moveHistory' = <<>>
             /\ currentPlayer' = BLACK
             /\ ~gameOver']_vars

(* The computer has just made the move that ends the game. *)
C15_Witness ==
    /\ gameOver
    /\ lastOp = "aiMove"
    /\ storage = NoSave

(* C18: in human-vs-computer mode, whenever the game is in progress and    *)
(* WHITE, the computer, is to move, a computer reply is pending: a click   *)
(* is refused in that state and only a pending reply makes the computer    *)
(* move, so without one the game waits for a move that never comes.        *)
C18_ComputerTurnHasReplyPending ==
    (gameMode = PVE /\ ~gameOver /\ currentPlayer = WHITE) => timers > 0

(* C19: at most one computer reply is pending, and one is pending only     *)
(* while the game is in progress in human-vs-computer mode with WHITE to   *)
(* move.                                                                   *)
C19_AtMostOneReplyPending ==
    /\ timers <= 1
    /\ timers > 0 => (~gameOver /\ gameMode = PVE /\ currentPlayer = WHITE)

(* C20: an undo that is not refused removes the last k ledger entries,     *)
(* k = 1 in two-human mode and k = min(2, ledger length) in                *)
(* human-vs-computer mode, empties the cells of those entries and no       *)
(* other, and gives the move to the opposite of the new tail's side, or to *)
(* BLACK when the ledger is empty; undo on an empty ledger changes         *)
(* nothing.                                                                *)
C20_UndoRemovesLastK ==
    [][lastOp' \in {"undo", "undo return"} =>
          IF Len(moveHistory) = 0
          THEN UNCHANGED <<board, moveHistory, moveCount, currentPlayer, gameOver,
                           gameMode, storage>>
          ELSE lastOp' = "undo" =>
                 LET k == IF gameMode = PVP THEN 1
                          ELSE IF Len(moveHistory) < 2 THEN Len(moveHistory) ELSE 2
                 IN  /\ moveHistory' = SubSeq(moveHistory, 1, Len(moveHistory) - k)
                     /\ board' = WithoutLast(board, moveHistory, k)
                     /\ currentPlayer' =
                            IF Len(moveHistory') = 0 THEN BLACK
                            ELSE Opponent(LastMove(moveHistory').player)]_vars

(* Undo has just taken back the only move of a human-vs-computer game. *)
C20_Witness ==
    /\ lastOp = "undo"
    /\ gameMode = PVE
    /\ Len(moveHistory) = 0
    /\ timers > 0

(* The empty cells of b where a piece of `player` makes five. *)
WinningCells(b, player) ==
    {cell \in Index \X Index :
        /\ b[cell[1]][cell[2]] = NONE
        /\ FiveThrough(PutCell(b, cell[1], cell[2], player), cell[1], cell[2])}

(* The first cell of a non-empty set in row-major order. *)
FirstRowMajor(cells) ==
    CHOOSE cell \in cells :
        \A other \in cells :
            cell[1] < other[1] \/ (cell[1] = other[1] /\ cell[2] <= other[2])

(* C16: when some empty cell gives WHITE five, getAIMove returns the first *)
(* such cell in row-major order; otherwise, when some empty cell gives     *)
(* BLACK five, it returns the first such cell in row-major order.          *)
C16_WinThenBlockInRowMajorOrder ==
    probe # NoProbe =>
        LET whiteWins == WinningCells(probe.before, WHITE)
            blackWins == WinningCells(probe.before, BLACK)
        IN  /\ whiteWins # {} => probe.move = FirstRowMajor(whiteWins)
            /\ (whiteWins = {} /\ blackWins # {}) =>
                   probe.move = FirstRowMajor(blackWins)

(* getAIMove has returned a winning cell for WHITE although a cell that    *)
(* blocks BLACK comes before it in row-major order.                        *)
C16_Witness ==
    /\ probe # NoProbe
    /\ WinningCells(probe.before, WHITE) # {}
    /\ WinningCells(probe.before, BLACK) # {}
    /\ FirstRowMajor(WinningCells(probe.before, BLACK)) # probe.move
    /\ FirstRowMajor(WinningCells(probe.before, WHITE) \cup
                     WinningCells(probe.before, BLACK)) # probe.move

(* C17: getAIMove returns no move exactly when the board has no empty      *)
(* cell, otherwise the coordinates of an empty cell, and it leaves the     *)
(* board as it found it.                                                   *)
C17_MoveIsEmptyCellAndBoardKept ==
    probe # NoProbe =>
        /\ (probe.move = NoMove) <=> (PlacedCount(probe.before) = BOARD_SIZE * BOARD_SIZE)
        /\ probe.move # NoMove =>
              /\ InBounds(probe.move[1], probe.move[2])
              /\ probe.before[probe.move[1]][probe.move[2]] = NONE
        /\ board = probe.before

(* getAIMove has chosen a cell by score, nobody having five within reach,  *)
(* on a board that is more than half full.                                 *)
C17_Witness ==
    /\ probe # NoProbe
    /\ probe.move # NoMove
    /\ WinningCells(probe.before, WHITE) = {}
    /\ WinningCells(probe.before, BLACK) = {}
    /\ 2 * PlacedCount(probe.before) > BOARD_SIZE * BOARD_SIZE

(* The stored item is not a snapshot: it does not parse or lacks a field. *)
Malformed(store) ==
    /\ store # NoSave
    /\ DOMAIN store[1] # SnapshotFields

(* C13: loading a malformed snapshot leaves the engine in the fresh        *)
(* initial state (empty board, empty ledger, BLACK to move, in progress,   *)
(* no field taken from the snapshot or left undefined) and removes the     *)
(* snapshot from the store.                                                *)
C13_MalformedSnapshotFallsBackToFresh ==
    [][(lastOp' = "constructor" /\ Malformed(storage)) =>
          /\ board' = createEmptyBoard
          /\ moveHistory' = <<>>
          /\ moveCount' = 0
          /\ currentPlayer' = BLACK
          /\ ~gameOver'
          /\ undefinedFields' = {}
          /\ storage' = NoSave]_vars

(* C12: undo followed at once by making the removed move again restores    *)
(* the board, the side to move and the ledger the undo started from; in    *)
(* human-vs-computer mode, where undo removed a human move and the         *)
(* computer's reply, once the computer has replied to the repeated move.   *)
C12_UndoThenSameMoveRestores ==
    beforeUndo # NoUndo =>
        LET prior == beforeUndo[1]
            n == Len(moveHistory)
            same(i) == /\ moveHistory[i].row = prior.moveHistory[i].row
                       /\ moveHistory[i].col = prior.moveHistory[i].col
            restored == /\ board = prior.board
                        /\ currentPlayer = prior.currentPlayer
                        /\ moveHistory = prior.moveHistory
        IN  /\ (/\ gameMode = PVP /\ lastOp = "handleClick"
                /\ n = Len(prior.moveHistory) /\ same(n)) => restored
            /\ (/\ gameMode = PVE /\ lastOp = "aiMove"
                /\ n = Len(prior.moveHistory) /\ same(n - 1)) => restored

(* C21: in every reachable state the ledger entries carry the sequence     *)
(* numbers 1 .. n in order, lie on the board, occupy distinct cells, and   *)
(* the board cell of each entry holds that entry's side; the sequence      *)
(* counter equals the ledger length.                                       *)
C21_LedgerWellFormed ==
    /\ moveCount = Len(moveHistory)
    /\ \A i \in 1 .. Len(moveHistory) :
          /\ moveHistory[i].moveNumber = i
          /\ InBounds(moveHistory[i].row, moveHistory[i].col)
          /\ board[moveHistory[i].row][moveHistory[i].col] = moveHistory[i].player
    /\ Cardinality({<<moveHistory[i].row, moveHistory[i].col>> :
                        i \in 1 .. Len(moveHistory)}) = Len(moveHistory)

(* A move has been made on the cell an undo had just emptied, in a game    *)
(* that was loaded from the store.                                         *)
C21_Witness ==
    /\ lastOp = "handleClick"
    /\ beforeUndo # NoUndo
    /\ Len(moveHistory) > Len(SavedPveClicks)

(* The piece at (row, col) and the four cells after it along some axis    *)
(* hold the same side.                                                     *)
FiveFrom(b, row, col) ==
    /\ b[row][col] # NONE
    /\ \E axis \in Axes : \A j \in 1 .. (WIN_LENGTH - 1) :
          /\ InBounds(row + j * axis[1], col + j * axis[2])
          /\ b[row + j * axis[1]][col + j * axis[2]] = b[row][col]

(* C23: in every reachable state in which the game is in progress, the     *)
(* board holds no horizontal, vertical or diagonal run of five or more     *)
(* cells of the same side.                                                 *)
C23_NoFiveWhileInProgress ==
    ~gameOver => \A r \in Index : \A c \in Index : ~FiveFrom(board, r, c)

(* The human has moved, the game goes on, and the computer has a cell      *)
(* that completes five.                                                    *)
C23_Witness ==
    /\ ~gameOver
    /\ lastOp = "handleClick"
    /\ gameMode = PVE
    /\ WinningCells(board, WHITE) # {}

(* The pieces of `player` that follow (row, col) without a gap in the      *)
(* direction (dx, dy).                                                     *)
RunBeside(b, row, col, dx, dy, player) ==
    Cardinality({k \in 1 .. BOARD_SIZE :
        \A j \in 1 .. k :
            /\ InBounds(row + j * dx, col + j * dy)
            /\ b[row + j * dx][col + j * dy] = player})

(* The score of the empty cell (row, col) for WHITE: per axis the points   *)
(* of the adjacent WHITE run and of the adjacent BLACK run, plus the       *)
(* centrality bonus.                                                       *)
CellScore(b, row, col) ==
    LET own(axis) == RunBeside(b, row, col, axis[1], axis[2], WHITE)
                     + RunBeside(b, row, col, -axis[1], -axis[2], WHITE)
        opp(axis) == RunBeside(b, row, col, axis[1], axis[2], BLACK)
                     + RunBeside(b, row, col, -axis[1], -axis[2], BLACK)
        ownPoints(n) == CASE n >= 4 -> 100000 [] n = 3 -> 10000 [] n = 2 -> 1000
                          [] n = 1 -> 100 [] OTHER -> 0
        oppPoints(n) == CASE n >= 4 -> 50000 [] n = 3 -> 5000 [] n = 2 -> 500
                          [] OTHER -> 0
        points(axis) == ownPoints(own(axis)) + oppPoints(opp(axis))
    IN  points(<<0, 1>>) + points(<<1, 0>>) + points(<<1, 1>>) + points(<<1, -1>>)
        + (14 - Abs(row - 7) - Abs(col - 7)) * 10

EmptyCells(b) == {cell \in Index \X Index : b[cell[1]][cell[2]] = NONE}

(* The empty cells of b that no empty cell outscores. *)
BestCells(b) ==
    LET scored == {<<cell, CellScore(b, cell[1], cell[2])>> : cell \in EmptyCells(b)}
        top == {p \in scored : \A q \in scored : p[2] >= q[2]}
    IN  {p[1] : p \in top}

(* C22: when neither side has a cell that makes five and the board has an  *)
(* empty cell, getAIMove returns the empty cell of the greatest score,     *)
(* the first in row-major order among those of equal score.                *)
C22_BestScoreFirstInRowMajorOrder ==
    ( /\ probe # NoProbe
      /\ WinningCells(probe.before, WHITE) = {}
      /\ WinningCells(probe.before, BLACK) = {}
      /\ EmptyCells(probe.before) # {} )
    => probe.move = FirstRowMajor(BestCells(probe.before))

(* getAIMove has chosen by score among several cells of the greatest       *)
(* score, and its choice is neither the first nor the last empty cell of   *)
(* the board, which holds runs of both sides.                              *)
C22_Witness ==
    /\ probe # NoProbe
    /\ WinningCells(probe.before, WHITE) = {}
    /\ WinningCells(probe.before, BLACK) = {}
    /\ Cardinality(BestCells(probe.before)) > 1
    /\ probe.move = FirstRowMajor(BestCells(probe.before))
    /\ probe.move # FirstRowMajor(EmptyCells(probe.before))
    /\ \E cell \in EmptyCells(probe.before) :
          /\ CellScore(probe.before, cell[1], cell[2]) > CellScore(probe.before, probe.move[1], probe.move[2]) - 1000
          /\ cell # probe.move
          /\ cell \notin BestCells(probe.before)

====
